---- MODULE Spec2Model ----
(***************************************************************************)
(* Verification model of the dumpster user client.                         *)
(*                                                                         *)
(*   SpecOpt     the useOptimistic hook (hooks/useOptimistic.ts)           *)
(*   SpecDumps   the dumps state container (contexts/DumpsContext.tsx)     *)
(*   SpecSearch  search with cancellation (services/search.service.ts,     *)
(*               contexts/SearchContext.tsx)                               *)
(*   SpecEnrich  enrichDump / assignTimeBucket (utils/time-buckets.ts)     *)
(*                                                                         *)
(* React state is modelled as the value held by the store (the argument of *)
(* the last setState) together with the value captured by the callbacks of *)
(* the last render; a Render action refreshes the captured value.          *)
(***************************************************************************)
EXTENDS Integers, Sequences, FiniteSets, TLC

VARIABLES
    optState,      \* useOptimistic: the OptimisticState held by useState
    optClosure,    \* useOptimistic: state.data captured by the rendered execute
    inv,           \* useOptimistic: the execute invocations
    dumps,         \* DumpsProvider: the dumps list held by useState
    dumpsClosure,  \* DumpsProvider: dumps captured by the rendered callbacks
    dumpsError,    \* DumpsProvider: error
    dumpsLoading,  \* DumpsProvider: loading
    lastUserId,    \* DumpsProvider: lastUserId
    fetches,       \* DumpsProvider: number of fetchDumps calls awaiting their response
    ops,           \* DumpsProvider: accept / reject invocations
    cancelTokenSource, \* search.service: module variable cancelTokenSource
    reqs,          \* search: the search requests issued so far
    results,       \* SearchProvider: results
    searchError,   \* SearchProvider: error
    searchLoading, \* SearchProvider: loading
    searchQuery,   \* SearchProvider: query
    searchClosure, \* SearchProvider: query captured by the rendered executeSearch
    searchUser,
    page,          \* SearchProvider: the page state    \* useAuth: user, as seen by the rendered executeSearch
    clock,         \* time-buckets: the wall clock
    dump,          \* time-buckets: the dump handed to enrichDump
    enriched,      \* time-buckets: the DumpDerived returned by enrichDump
    dateArg,       \* time-buckets: the date string handed to assignTimeBucket
    assigned,      \* time-buckets: the assignTimeBucket calls made so far
    sortInput,     \* sorting: the list handed to sortDumps
    sorted,        \* sorting: what sortDumps returned, and what sorting that again returned
    accessToken,   \* ApiService: this.accessToken
    refreshToken,  \* ApiService: this.refreshToken
    storage,       \* localStorage: the keys accessToken and refreshToken
    location,      \* window.location.href
    chain,         \* ApiService: the request being handled and the refresh calls nested in it
    refreshPosts,  \* ApiService: POST /auth/refresh calls issued for the request
    resends,       \* ApiService: times the request was sent again
    outcome,       \* ApiService: how the promise of the request settled
    lastStatus,    \* ApiService: the status of the last answer to the request
    bucketList,    \* dashboard: the dumps handed to useTimeBuckets
    timeBuckets,   \* dashboard: what useTimeBuckets returned at the last render
    mounted,       \* dashboard: the buckets whose TimeBucket component is mounted
    isExpanded,    \* TimeBucket: the isExpanded state of each bucket's component
    bucketStorage, \* localStorage: the keys timeBucket_<bucket>_expanded
    user,          \* AuthProvider: the user state
    authLoading,   \* AuthProvider: the isLoading state
    authError,     \* AuthProvider: the error state
    isAuthenticated, \* AuthProvider: the isAuthenticated value of the last render
    storedUser,    \* localStorage: the key user
    loginPending,  \* AuthProvider: login awaits the answer of POST /auth/login
    authOp         \* AuthProvider: the operation that ran last

optVars    == <<optState, optClosure, inv>>
dumpVars   == <<dumps, dumpsClosure, dumpsError, dumpsLoading, lastUserId, fetches, ops>>
searchVars == <<cancelTokenSource, reqs, results, searchError, searchLoading,
                searchQuery, searchClosure, searchUser, page>>
enrichVars == <<clock, dump, enriched, dateArg, assigned>>
sortVars   == <<sortInput, sorted>>
authVars   == <<accessToken, refreshToken, storage, location, chain, refreshPosts, resends,
                outcome, lastStatus>>
bucketVars == <<bucketList, timeBuckets>>
expandVars == <<mounted, isExpanded, bucketStorage>>
ctxVars    == <<user, authLoading, authError, isAuthenticated, storedUser, loginPending,
                authOp>>
vars       == <<optVars, dumpVars, searchVars, enrichVars, sortVars, authVars, bucketVars,
                expandVars, ctxVars>>

Null == "null"

(***************************************************************************)
(* useOptimistic                                                           *)
(***************************************************************************)

\* Number of execute invocations of one hook instance.
MaxInv == 3

\* Arguments handed to execute, payloads the server returns, values handed to setData.
ArgVals == {1}
SrvVals == {1}
SetVals == {1}

\* Messages of the Error that onCommit rejects with; "" is an Error without a message.
ErrMsgs == {"", "timeout"}

\* T: the src field records where a value came from.
InitialData == [src |-> "init", val |-> 0, base |-> "none"]
SrvData(r)  == [src |-> "srv", val |-> r, base |-> "none"]

\* options.onUpdate: the caller's local update, a function of the current value and the arguments.
onUpdate(current, a) == [src |-> "opt", val |-> a, base |-> current.src]

OptimisticState(d, o, p, e) == [data |-> d, isOptimistic |-> o, isPending |-> p, error |-> e]

IdleInv == [pc |-> "idle", arg |-> 0, originalData |-> InitialData, visible |-> InitialData,
            optimisticData |-> InitialData, stale |-> FALSE,
            ret |-> [success |-> FALSE, data |-> InitialData, error |-> Null],
            log |-> <<>>]

OptInit ==
    /\ optState = OptimisticState(InitialData, FALSE, FALSE, Null)
    /\ optClosure = InitialData
    /\ inv = [i \in 1..MaxInv |-> IdleInv]

OptFrame == UNCHANGED <<dumpVars, searchVars, enrichVars, sortVars, authVars,
                       bucketVars, expandVars, ctxVars>>

\* A render: execute is re-created with the current state.data (useCallback deps).
OptRender ==
    /\ optClosure # optState.data
    /\ optClosure' = optState.data
    /\ UNCHANGED <<optState, inv>>
    /\ OptFrame

\* Step 1: the state published before onCommit is called.
PendingStateNotApplied(current, a) == OptimisticState(current, TRUE, TRUE, Null)
PendingState(current, a) == OptimisticState(onUpdate(current, a), TRUE, TRUE, Null)

\* Step 3: the state set when onCommit resolved with result.
CommittedStateKeepsGuess(result, optimisticData) == OptimisticState(optimisticData, FALSE, FALSE, Null)
CommittedState(result, optimisticData) == OptimisticState(result, FALSE, FALSE, Null)

\* error.message || 'Operation failed'
MessageOr(msg, fallback) == IF msg = "" THEN fallback ELSE msg

\* Step 4: the state set when onCommit rejected with an Error whose message is msg.
RolledBackStateKeepsGuess(originalData, optimisticData, msg) ==
    OptimisticState(optimisticData, FALSE, FALSE, MessageOr(msg, "Operation failed"))
RolledBackState(originalData, optimisticData, msg) ==
    OptimisticState(originalData, FALSE, FALSE, MessageOr(msg, "Operation failed"))

\* execute, up to the await of onCommit.
Execute(i, a) ==
    /\ inv[i].pc = "idle"
    /\ \A j \in 1..(i - 1) : inv[j].pc # "idle"
    /\ optState' = PendingState(optClosure, a)
    /\ inv' = [inv EXCEPT ![i] = [@ EXCEPT !.pc = "pending", !.arg = a,
                                    !.originalData = optClosure,
                                    !.visible = optClosure,
                                    !.stale = \/ optClosure # optState.data
                                              \/ \E j \in 1..MaxInv : inv[j].pc = "pending",
                                    !.optimisticData = onUpdate(optClosure, a),
                                    !.log = <<"setOptimistic", "onCommit">>]]
    /\ UNCHANGED optClosure
    /\ OptFrame

\* execute, after onCommit resolved with r.
CommitResolved(i, r) ==
    /\ inv[i].pc = "pending"
    /\ optState' = CommittedState(SrvData(r), inv[i].optimisticData)
    /\ inv' = [inv EXCEPT ![i] = [@ EXCEPT !.pc = "committed",
                                    !.ret = [success |-> TRUE, data |-> SrvData(r), error |-> Null],
                                    !.log = Append(@, "setCommitted")]]
    /\ UNCHANGED optClosure
    /\ OptFrame

\* execute, after onCommit rejected with an Error whose message is msg.
CommitRejected(i, msg) ==
    /\ inv[i].pc = "pending"
    /\ optState' = RolledBackState(inv[i].originalData, inv[i].optimisticData, msg)
    /\ inv' = [inv EXCEPT ![i] = [@ EXCEPT !.pc = "rolledBack",
                                    !.ret = [success |-> FALSE, data |-> InitialData, error |-> msg],
                                    !.log = Append(@, "setRolledBack")]]
    /\ UNCHANGED optClosure
    /\ OptFrame

OptClearError ==
    /\ optState.error # Null
    /\ optState' = [optState EXCEPT !.error = Null]
    /\ UNCHANGED <<optClosure, inv>>
    /\ OptFrame

\* setData
OptSetData(v) ==
    /\ optState' = OptimisticState([src |-> "set", val |-> v, base |-> "none"], FALSE, FALSE, Null)
    /\ UNCHANGED <<optClosure, inv>>
    /\ OptFrame

NextOpt ==
    \/ OptRender
    \/ \E v \in SetVals : OptSetData(v)
    \/ \E i \in 1..MaxInv, a \in ArgVals : Execute(i, a)
    \/ \E i \in 1..MaxInv, r \in SrvVals : CommitResolved(i, r)
    \/ \E i \in 1..MaxInv, msg \in ErrMsgs : CommitRejected(i, msg)
    \/ OptClearError

(***************************************************************************)
(* DumpsProvider                                                           *)
(***************************************************************************)

\* Number of fetchDumps calls in flight.
MaxFetch == 1

\* The components that call acceptDumpWithOptimism / rejectDumpWithOptimism:
\* DumpDetailModal (handleAccept, handleReject) and ReviewPage (handleApprove, handleReject).
Callers == {"modal", "page"}

\* reason.trim().length < 10
MinReasonLen == 10

\* The dump ids handed to the container's operations; the list also holds dump "b".
DumpIds == {"a"}
UserIds == {"u1"}

\* A Dump, reduced to the fields the container reads or writes.
Dump(id, st) == [id |-> id, processing_status |-> st]
NoDump == [id |-> "none"]

\* Payloads of GET /api/dumps/user/{userId}.
ServerLists == { <<Dump("a", "processing"), Dump("b", "processing")>> }

\* Payloads of POST /review/{id}/approve and /review/{id}/reject.
ServerDumps(id) == { Dump(id, "completed") }

\* error.message of a failed ApiResponse; "" is a response without a message.
FailMsgs == {"", "Network Error"}

\* The outcomes of a dumpsService call: an ApiResponse<Dump> (success with
\* data, success without data, failure), or a thrown Error with a message.
ApiResponses ==
    {[success |-> TRUE, data |-> d, message |-> "", thrown |-> FALSE] :
        d \in UNION {ServerDumps(id) : id \in DumpIds} \cup {NoDump}}
    \cup {[success |-> FALSE, data |-> NoDump, message |-> m, thrown |-> t] :
            m \in FailMsgs, t \in BOOLEAN}

\* Partial<Dump> handed to updateDumpLocally by the pages.
LocalPatches == {[processing_status |-> "processing"]}

\* Trimmed lengths of the reasons handed to rejectDumpWithOptimism.
ReasonLens == {9, 10}

\* { ...d, ...u }
Spread(d, u) == [k \in DOMAIN d \cup DOMAIN u |-> IF k \in DOMAIN u THEN u[k] ELSE d[k]]

\* prev.map(dump => dump.id === dumpId ? { ...dump, ...updates } : dump)
MapUpdate(list, dumpId, updates) ==
    [k \in 1..Len(list) |-> IF list[k].id = dumpId THEN Spread(list[k], updates) ELSE list[k]]

\* dumps.find(d => d.id === dumpId)
Find(list, dumpId) ==
    IF \E k \in 1..Len(list) : list[k].id = dumpId
    THEN list[CHOOSE k \in 1..Len(list) :
                 /\ list[k].id = dumpId
                 /\ \A j \in 1..(k - 1) : list[j].id # dumpId]
    ELSE NoDump

IdleOp == [kind |-> "none", pc |-> "idle", dumpId |-> "none", reasonLen |-> 0,
           originalDump |-> NoDump, before |-> NoDump, ret |-> [success |-> FALSE, error |-> Null], calls |-> <<>>]

DumpInit ==
    /\ dumps = <<>>
    /\ dumpsClosure = <<>>
    /\ dumpsError = Null
    /\ dumpsLoading = FALSE
    /\ lastUserId = Null
    /\ fetches = 0
    /\ ops = [i \in Callers |-> IdleOp]

DumpFrame == UNCHANGED <<optVars, searchVars, enrichVars, sortVars, authVars,
                       bucketVars, expandVars, ctxVars>>

\* A render: the callbacks are re-created with the current dumps (useCallback deps).
DumpsRender ==
    /\ dumpsClosure # dumps
    /\ dumpsClosure' = dumps
    /\ UNCHANGED <<dumps, dumpsError, dumpsLoading, lastUserId, fetches, ops>>
    /\ DumpFrame

\* fetchDumps, up to the await; refetchDumps is fetchDumps(lastUserId).
FetchDumps(userId) ==
    /\ fetches < MaxFetch
    /\ dumpsLoading' = TRUE
    /\ dumpsError' = Null
    /\ lastUserId' = userId
    /\ fetches' = fetches + 1
    /\ UNCHANGED <<dumps, dumpsClosure, ops>>
    /\ DumpFrame

\* fetchDumps, after the response: the list on success, the error otherwise.
FetchDumpsOk(list) ==
    /\ fetches > 0
    /\ dumps' = list
    /\ dumpsLoading' = FALSE
    /\ fetches' = fetches - 1
    /\ UNCHANGED <<dumpsClosure, dumpsError, lastUserId, ops>>
    /\ DumpFrame

FetchDumpsFailed(msg) ==
    /\ fetches > 0
    /\ dumpsError' = MessageOr(msg, "Failed to fetch dumps")
    /\ dumpsLoading' = FALSE
    /\ fetches' = fetches - 1
    /\ UNCHANGED <<dumps, dumpsClosure, lastUserId, ops>>
    /\ DumpFrame

UpdateDumpLocally(dumpId, updates) ==
    /\ dumps' = MapUpdate(dumps, dumpId, updates)
    /\ dumps' # dumps
    /\ UNCHANGED <<dumpsClosure, dumpsError, dumpsLoading, lastUserId, fetches, ops>>
    /\ DumpFrame

DumpsClearError ==
    /\ dumpsError # Null
    /\ dumpsError' = Null
    /\ UNCHANGED <<dumps, dumpsClosure, dumpsLoading, lastUserId, fetches, ops>>
    /\ DumpFrame

\* Step 1 of accept: the optimistic update.
AcceptOptimisticUpdate == [processing_status |-> "completed"]

\* Step 1 of reject: the optimistic update, with the derived status.
RejectOptimisticUpdate == [processing_status |-> "completed", status |-> "Rejected"]

\* Step 4: the patch that rolls the optimistic update back.
RollbackPatchNone(originalDump) == [id |-> originalDump.id]
RollbackPatch(originalDump) == originalDump

\* The caller is not awaiting an earlier invocation.
Settled(i) == ops[i].pc \in {"idle", "refused", "succeeded", "failed"}

\* The early return { success: false, error }.
Refuse(i, kind, dumpId, reasonLen, msg) ==
    /\ ops' = [ops EXCEPT ![i] = [@ EXCEPT !.kind = kind, !.pc = "refused", !.dumpId = dumpId,
                                    !.reasonLen = reasonLen, !.calls = <<>>,
                                    !.ret = [success |-> FALSE, error |-> msg]]]
    /\ UNCHANGED <<dumps, dumpsClosure, dumpsError, dumpsLoading, lastUserId, fetches>>

\* Steps 1 and 2: snapshot, optimistic update, first remote call.
Begin(i, kind, dumpId, reasonLen, patch, pc, call) ==
    /\ dumps' = MapUpdate(dumps, dumpId, patch)
    /\ ops' = [ops EXCEPT ![i] = [@ EXCEPT !.kind = kind, !.pc = pc, !.dumpId = dumpId,
                                    !.reasonLen = reasonLen,
                                    !.ret = IdleOp.ret,
                                    !.originalDump = Find(dumpsClosure, dumpId),
                                    !.before = Find(dumpsClosure, dumpId),
                                    !.calls = <<call>>]]
    /\ UNCHANGED <<dumpsClosure, dumpsError, dumpsLoading, lastUserId, fetches>>

\* Step 3: the server's dump replaces the optimistic data (the snapshot goes out of scope).
Succeed(i, data) ==
    /\ dumps' = MapUpdate(dumps, ops[i].dumpId, data)
    /\ ops' = [ops EXCEPT ![i] = [@ EXCEPT !.pc = "succeeded",
                                    !.originalDump = NoDump, !.before = NoDump,
                                    !.ret = [success |-> TRUE, error |-> Null]]]
    /\ UNCHANGED <<dumpsClosure, dumpsError, dumpsLoading, lastUserId, fetches>>

\* Step 4: the catch branch, for a thrown Error whose message is msg.
Rethrow(i, msg, fallback) ==
    /\ ops' = [ops EXCEPT ![i] = [@ EXCEPT !.pc = "rejected"]]
    /\ UNCHANGED <<dumps, dumpsClosure, dumpsError, dumpsLoading, lastUserId, fetches>>

Rollback(i, msg, fallback) ==
    /\ dumps' = MapUpdate(dumps, ops[i].dumpId, RollbackPatch(ops[i].originalDump))
    /\ dumpsError' = MessageOr(msg, fallback)
    /\ ops' = [ops EXCEPT ![i] = [@ EXCEPT !.pc = "failed",
                                    !.originalDump = NoDump, !.before = NoDump,
                                    !.ret = [success |-> FALSE, error |-> MessageOr(msg, fallback)]]]
    /\ UNCHANGED <<dumpsClosure, dumpsLoading, lastUserId, fetches>>

\* acceptDumpWithOptimism, up to its first await; withUpdates is updates.category || updates.notes.
AcceptDumpWithOptimism(i, dumpId, withUpdates) ==
    /\ Settled(i)
    /\ IF Find(dumpsClosure, dumpId) = NoDump
       THEN Refuse(i, "accept", dumpId, 0, "Dump not found")
       ELSE IF withUpdates
            THEN Begin(i, "accept", dumpId, 0, AcceptOptimisticUpdate, "awaitUpdate", "updateDump")
            ELSE Begin(i, "accept", dumpId, 0, AcceptOptimisticUpdate, "awaitApprove", "acceptDump")
    /\ DumpFrame

\* acceptDumpWithOptimism, after dumpsService.updateDump answered.
AcceptUpdateAnswered(i, resp) ==
    /\ ops[i].pc = "awaitUpdate"
    /\ resp.data \in ServerDumps(ops[i].dumpId) \cup {NoDump}
    /\ IF resp.thrown
       THEN Rollback(i, resp.message, "Failed to accept dump")
       ELSE IF resp.success
       THEN /\ ops' = [ops EXCEPT ![i] = [@ EXCEPT !.pc = "awaitApprove",
                                            !.calls = Append(@, "acceptDump")]]
            /\ UNCHANGED <<dumps, dumpsClosure, dumpsError, dumpsLoading, lastUserId, fetches>>
       ELSE Rollback(i, MessageOr(resp.message, "Failed to update dump"), "Failed to accept dump")
    /\ DumpFrame

\* acceptDumpWithOptimism, after dumpsService.acceptDump answered.
AcceptApproveAnswered(i, resp) ==
    /\ ops[i].pc = "awaitApprove"
    /\ resp.data \in ServerDumps(ops[i].dumpId) \cup {NoDump}
    /\ IF resp.thrown
       THEN Rollback(i, resp.message, "Failed to accept dump")
       ELSE IF resp.success /\ resp.data # NoDump
       THEN Succeed(i, resp.data)
       ELSE Rollback(i, MessageOr(resp.message, "Failed to accept dump"), "Failed to accept dump")
    /\ DumpFrame

\* rejectDumpWithOptimism without its first check.
RejectDumpWithOptimismUnchecked(i, dumpId, reasonLen) ==
    /\ Settled(i)
    /\ IF Find(dumpsClosure, dumpId) = NoDump
       THEN Refuse(i, "reject", dumpId, reasonLen, "Dump not found")
       ELSE Begin(i, "reject", dumpId, reasonLen, RejectOptimisticUpdate, "awaitReject",
                  "rejectDump")
    /\ DumpFrame

\* rejectDumpWithOptimism, up to its await; reasonLen is reason.trim().length.
RejectDumpWithOptimism(i, dumpId, reasonLen) ==
    /\ Settled(i)
    /\ IF reasonLen < MinReasonLen
       THEN Refuse(i, "reject", dumpId, reasonLen,
                   "Rejection reason must be at least 10 characters")
       ELSE IF Find(dumpsClosure, dumpId) = NoDump
            THEN Refuse(i, "reject", dumpId, reasonLen, "Dump not found")
            ELSE Begin(i, "reject", dumpId, reasonLen, RejectOptimisticUpdate, "awaitReject",
                       "rejectDump")
    /\ DumpFrame

\* rejectDumpWithOptimism, after dumpsService.rejectDump answered.
RejectAnswered(i, resp) ==
    /\ ops[i].pc = "awaitReject"
    /\ resp.data \in ServerDumps(ops[i].dumpId) \cup {NoDump}
    /\ IF resp.thrown
       THEN Rollback(i, resp.message, "Failed to reject dump")
       ELSE IF resp.success /\ resp.data # NoDump
       THEN Succeed(i, resp.data)
       ELSE Rollback(i, MessageOr(resp.message, "Failed to reject dump"), "Failed to reject dump")
    /\ DumpFrame

NextDumps ==
    \/ DumpsRender
    \/ \E u \in UserIds : FetchDumps(u)
    \/ \E l \in ServerLists : FetchDumpsOk(l)
    \/ \E m \in FailMsgs : FetchDumpsFailed(m)
    \/ \E d \in DumpIds, u \in LocalPatches : UpdateDumpLocally(d, u)
    \/ DumpsClearError
    \/ \E i \in Callers, d \in DumpIds, w \in BOOLEAN : AcceptDumpWithOptimism(i, d, w)
    \/ \E i \in Callers, r \in ApiResponses : AcceptUpdateAnswered(i, r)
    \/ \E i \in Callers, r \in ApiResponses : AcceptApproveAnswered(i, r)
    \/ \E i \in Callers, d \in DumpIds, n \in ReasonLens : RejectDumpWithOptimism(i, d, n)
    \/ \E i \in Callers, r \in ApiResponses : RejectAnswered(i, r)

(***************************************************************************)
(* ReviewPage: the detail modal opened from the review page               *)
(***************************************************************************)

\* FlaggedDump.status
FlaggedStatuses == {"pending", "approved", "rejected"}

\* mapProcessingStatus; the statuses are lower case already.
mapProcessingStatus(status) ==
    IF status \in {"received", "processing", "completed", "failed"} THEN status ELSE "received"

\* DumpDetailModal.handleAccept, up to its await, for a valid form: category is
\* required, so updates.category is set.
HandleAccept(dumpId) ==
    /\ ops["modal"].pc = "idle"
    /\ \E status \in FlaggedStatuses : mapProcessingStatus(status) = "received"
    /\ AcceptDumpWithOptimism("modal", dumpId, TRUE)

\* DumpDetailModal.handleAccept after its await: result.success, so
\* onAccept(dump.id, updates) is called, which is ReviewPage.handleApprove.
HandleApprove ==
    /\ ops["modal"].pc = "succeeded"
    /\ ops["page"].pc = "idle"
    /\ AcceptDumpWithOptimism("page", ops["modal"].dumpId, TRUE)

NextReview ==
    \/ DumpsRender
    \/ \E u \in UserIds : FetchDumps(u)
    \/ \E l \in ServerLists : FetchDumpsOk(l)
    \/ \E d \in DumpIds : HandleAccept(d)
    \/ HandleApprove
    \/ \E i \in Callers, r \in ApiResponses : AcceptUpdateAnswered(i, r)
    \/ \E i \in Callers, r \in ApiResponses : AcceptApproveAnswered(i, r)

(***************************************************************************)
(* Search: searchDumpsWithCancellation and SearchProvider                  *)
(***************************************************************************)

\* Number of search requests issued.
MaxReqs == 3

Queries == {"", "q"}

\* SearchResults | null | undefined; req names the request a payload answers.
NullResults      == [kind |-> "null", req |-> 0, total |-> 0]
UndefinedResults == [kind |-> "undefined", req |-> 0, total |-> 0]
Payload(k, n)    == [kind |-> "data", req |-> k, total |-> n]

\* DEFAULT_PAGINATION.pageSize
PageSize == 20

\* SearchResults.total of the answers of the backend: no match, one page, three pages.
Totals == {0, 5, 45}

\* Math.ceil(total / pageSize)
TotalPages(total) == (total + PageSize - 1) \div PageSize

SearchInit ==
    /\ cancelTokenSource = 0
    /\ reqs = <<>>
    /\ results = NullResults
    /\ searchError = Null
    /\ searchLoading = FALSE
    /\ searchQuery = ""
    /\ searchClosure = ""
    /\ searchUser = Null
    /\ page = 1

SearchFrame == UNCHANGED <<optVars, dumpVars, enrichVars, sortVars, authVars,
                       bucketVars, expandVars, ctxVars>>

\* A request whose signal was aborted rejects at once; its continuation runs
\* before the next event is handled.
AbortPending == \E k \in 1..Len(reqs) : reqs[k] = "aborted"

SetQuery(q) ==
    /\ ~AbortPending
    /\ q # searchQuery
    /\ searchQuery' = q
    /\ UNCHANGED <<cancelTokenSource, reqs, results, searchError, searchLoading,
                   searchClosure, searchUser, page>>
    /\ SearchFrame

\* useAuth's user changes (login, logout).
SetUser(u) ==
    /\ ~AbortPending
    /\ u # searchUser
    /\ searchUser' = u
    /\ UNCHANGED <<cancelTokenSource, reqs, results, searchError, searchLoading,
                   searchQuery, searchClosure, page>>
    /\ SearchFrame

\* A render: executeSearch is re-created with the current query (useCallback deps).
SearchRender ==
    /\ ~AbortPending
    /\ searchClosure # searchQuery
    /\ searchClosure' = searchQuery
    /\ UNCHANGED <<cancelTokenSource, reqs, results, searchError, searchLoading,
                   searchQuery, searchUser, page>>
    /\ SearchFrame

\* if (cancelTokenSource) cancelTokenSource.abort()
AbortPrevious(rs, cts) ==
    IF cts # 0 /\ rs[cts] = "inflight" THEN [rs EXCEPT ![cts] = "aborted"] ELSE rs

\* executeSearch up to the await inside searchDumpsWithCancellation.
ExecuteSearch ==
    /\ ~AbortPending
    /\ IF searchClosure = ""
       THEN /\ results' = NullResults
            /\ UNCHANGED <<cancelTokenSource, reqs, searchError, searchLoading>>
       ELSE IF searchUser = Null
       THEN /\ searchError' = "User not authenticated"
            /\ UNCHANGED <<cancelTokenSource, reqs, results, searchLoading>>
       ELSE /\ Len(reqs) < MaxReqs
            /\ searchLoading' = TRUE
            /\ searchError' = Null
            /\ reqs' = Append(AbortPrevious(reqs, cancelTokenSource), "inflight")
            /\ cancelTokenSource' = Len(reqs) + 1
            /\ UNCHANGED results
    /\ UNCHANGED <<searchQuery, searchClosure, searchUser, page>>
    /\ SearchFrame

\* What searchDumpsWithCancellation returns for an ApiResponse: response.data.
\* ApiService.post catches every error (a cancelled request included) and
\* returns {success: false, error}, whose data is undefined.
ResponseData(k, ok, total) == IF ok THEN Payload(k, total) ELSE UndefinedResults

\* The rest of searchDumpsWithCancellation and of executeSearch once the
\* request k has settled: finally { cancelTokenSource = null }, setResults,
\* finally { setLoading(false) }.
Settle(k, ok, total) ==
    /\ cancelTokenSource' = 0
    /\ results' = ResponseData(k, ok, total)
    /\ searchLoading' = FALSE
    /\ reqs' = [reqs EXCEPT ![k] = IF reqs[k] = "aborted" THEN "cancelled"
                                   ELSE IF ok THEN "answered" ELSE "failed"]
    /\ UNCHANGED <<searchError, searchQuery, searchClosure, searchUser, page>>

\* The continuation of a request that was aborted.
AbortSettled(k) ==
    /\ k \in 1..Len(reqs)
    /\ reqs[k] = "aborted"
    /\ Settle(k, FALSE, 0)
    /\ SearchFrame

\* The backend answers request k, or the request fails.
SearchAnswered(k, ok, total) ==
    /\ ~AbortPending
    /\ k \in 1..Len(reqs)
    /\ reqs[k] = "inflight"
    /\ ~ok => total = 0
    /\ Settle(k, ok, total)
    /\ SearchFrame

ResetSearch ==
    /\ ~AbortPending
    /\ searchQuery' = ""
    /\ results' = NullResults
    /\ searchError' = Null
    /\ page' = 1
    /\ <<searchQuery', results', searchError', page'>> # <<searchQuery, results, searchError, page>>
    /\ UNCHANGED <<cancelTokenSource, reqs, searchLoading, searchClosure, searchUser>>
    /\ SearchFrame

\* nextPage
NextPage ==
    /\ ~AbortPending
    /\ results.kind = "data"
    /\ page < TotalPages(results.total)
    /\ page' = page + 1
    /\ UNCHANGED <<cancelTokenSource, reqs, results, searchError, searchLoading,
                   searchQuery, searchClosure, searchUser>>
    /\ SearchFrame

\* prevPage
PrevPage ==
    /\ ~AbortPending
    /\ page > 1
    /\ page' = page - 1
    /\ UNCHANGED <<cancelTokenSource, reqs, results, searchError, searchLoading,
                   searchQuery, searchClosure, searchUser>>
    /\ SearchFrame

SearchClearError ==
    /\ ~AbortPending
    /\ searchError # Null
    /\ searchError' = Null
    /\ UNCHANGED <<cancelTokenSource, reqs, results, searchLoading,
                   searchQuery, searchClosure, searchUser, page>>
    /\ SearchFrame

NextSearch ==
    \/ \E q \in Queries : SetQuery(q)
    \/ \E u \in UserIds \cup {Null} : SetUser(u)
    \/ SearchRender
    \/ ExecuteSearch
    \/ \E k \in 1..MaxReqs : AbortSettled(k)
    \/ \E k \in 1..MaxReqs, ok \in BOOLEAN, n \in Totals : SearchAnswered(k, ok, n)
    \/ ResetSearch
    \/ NextPage
    \/ PrevPage
    \/ SearchClearError

(***************************************************************************)
(* Time buckets: enrichDump, getEarliestDate, isOverdue, assignTimeBucket  *)
(*                                                                         *)
(* An instant is a number of ticks of local time; a day has TicksPerDay    *)
(* ticks, tick 0 being 00:00:00 and the last tick 23:59:59. A date string  *)
(* is an ISO timestamp naming an instant, an unparseable string, or empty. *)
(***************************************************************************)

TicksPerDay == 2

\* Invalid Date (getTime() is NaN), and the null getEarliestDate returns.
NaN == -1
NoDate == -2

IsoString(t) == [kind |-> "iso", t |-> t]
BadString    == [kind |-> "bad", t |-> 0]
EmptyString  == [kind |-> "empty", t |-> 0]

\* date-fns parseISO and the Date constructor on a date string.
parseISO(str) == IF str.kind = "iso" THEN str.t ELSE NaN
NewDate(str) == IF str.kind = "iso" THEN str.t ELSE NaN

\* Date.prototype.toISOString of a valid date.
toISOString(d) == [kind |-> "iso", t |-> d]

\* The calendar: days are counted from 1 January of year 0, years have 365 days.
MonthLens == <<31, 28, 31, 30, 31, 30, 31, 31, 30, 31, 30, 31>>
DaysInYear == 365

RECURSIVE DaysBefore(_)
DaysBefore(m) == IF m = 1 THEN 0 ELSE DaysBefore(m - 1) + MonthLens[m - 1]

DayIndex(t) == t \div TicksPerDay
TimeOfDay(t) == t % TicksPerDay
YearOf(d) == d \div DaysInYear
MonthOf(d) ==
    CHOOSE m \in 1..12 :
        /\ DaysBefore(m) <= d % DaysInYear
        /\ d % DaysInYear < DaysBefore(m) + MonthLens[m]
DayOfMonth(d) == (d % DaysInYear) - DaysBefore(MonthOf(d)) + 1
FromYMD(y, m, dom) == y * DaysInYear + DaysBefore(m) + dom - 1

Min(a, b) == IF a < b THEN a ELSE b

\* date-fns helpers.
startOfDay(t) == DayIndex(t) * TicksPerDay
addDays(t, n) == t + n * TicksPerDay
addWeeks(t, n) == addDays(t, 7 * n)
addMonths(t, n) ==
    LET d  == DayIndex(t)
        mi == YearOf(d) * 12 + (MonthOf(d) - 1) + n
        y2 == mi \div 12
        m2 == (mi % 12) + 1
    IN  FromYMD(y2, m2, Min(DayOfMonth(d), MonthLens[m2])) * TicksPerDay + TimeOfDay(t)
isBefore(a, b) == a # NaN /\ b # NaN /\ a < b
isSameDay(a, b) == a # NaN /\ b # NaN /\ startOfDay(a) = startOfDay(b)
\* isToday and isTomorrow read the clock themselves (Date.now()); now is that reading.
isToday(d, now) == isSameDay(d, now)
isTomorrow(d, now) == isSameDay(d, addDays(now, 1))

\* The wall clock is read up to NReads times while enrichDump runs; the clock
\* ticks at most once meanwhile: the reads after position p see clock + 1.
NReads == 5
ClockRead(i, p) == clock + (IF i > p THEN 1 ELSE 0)

\* assignTimeBucket; r2 is new Date(), r3 and r4 the readings of isToday and isTomorrow.
assignTimeBucketRolling(earliestDate, r2, r3, r4) ==
    LET date == parseISO(earliestDate)
    IN  IF isBefore(date, startOfDay(r2)) THEN "overdue"
        ELSE IF isBefore(date, addDays(r2, 1)) THEN "today"
        ELSE IF isBefore(date, addDays(r2, 2)) THEN "tomorrow"
        ELSE IF isBefore(date, addWeeks(r2, 1)) THEN "nextWeek"
        ELSE IF isBefore(date, addMonths(r2, 1)) THEN "nextMonth"
        ELSE "later"

assignTimeBucket(earliestDate, r2, r3, r4) ==
    LET date         == parseISO(earliestDate)
        todayStart   == startOfDay(r2)
        nextWeekEnd  == addWeeks(todayStart, 1)
        nextMonthEnd == addMonths(todayStart, 1)
    IN  IF isBefore(date, todayStart) THEN "overdue"
        ELSE IF isToday(date, r3) THEN "today"
        ELSE IF isTomorrow(date, r4) THEN "tomorrow"
        ELSE IF isBefore(date, nextWeekEnd) THEN "nextWeek"
        ELSE IF isBefore(date, nextMonthEnd) THEN "nextMonth"
        ELSE "later"

\* dates.map(d => parseISO(d)).filter(d => !isNaN(d.getTime()))
ParsedDates(dates) == {parseISO(dates[k]) : k \in 1..Len(dates)} \ {NaN}

SetMin(S) == CHOOSE x \in S : \A y \in S : x <= y

\* getEarliestDate: hasDates is dump.extracted_entities?.entities?.dates being there.
getEarliestDateFirst(dmp) ==
    IF ~dmp.hasDates THEN NoDate
    ELSE IF Len(dmp.dates) = 0 THEN NoDate
    ELSE IF ParsedDates(dmp.dates) = {} THEN NoDate
    ELSE parseISO(dmp.dates[CHOOSE k \in 1..Len(dmp.dates) :
                               /\ parseISO(dmp.dates[k]) # NaN
                               /\ \A j \in 1..(k - 1) : parseISO(dmp.dates[j]) = NaN])

getEarliestDate(dmp) ==
    IF ~dmp.hasDates THEN NoDate
    ELSE IF Len(dmp.dates) = 0 THEN NoDate
    ELSE IF ParsedDates(dmp.dates) = {} THEN NoDate
    ELSE SetMin(ParsedDates(dmp.dates))

\* isOverdue; r5 is its reading of the clock.
isOverdueBeforeNow(dmp, r5) ==
    IF getEarliestDate(dmp) = NoDate THEN FALSE
    ELSE isBefore(getEarliestDate(dmp), r5)

isOverdue(dmp, r5) ==
    IF getEarliestDate(dmp) = NoDate THEN FALSE
    ELSE isBefore(getEarliestDate(dmp), startOfDay(r5))

\* The isOverdue flag of the derived item.
DerivedIsOverdueByDisplayDate(dmp, displayDate, r5) == isBefore(displayDate, startOfDay(r5))
DerivedIsOverdue(dmp, displayDate, r5) ==
    IF getEarliestDate(dmp) # NoDate /\ getEarliestDate(dmp) # NaN
    THEN isOverdue(dmp, r5)
    ELSE FALSE

\* The timeBucket of the derived item.
DerivedTimeBucketByDisplayDate(validEarliestDate, displayDate, r2, r3, r4) ==
    assignTimeBucket(toISOString(displayDate), r2, r3, r4)
DerivedTimeBucket(validEarliestDate, displayDate, r2, r3, r4) ==
    IF validEarliestDate # NoDate
    THEN assignTimeBucket(toISOString(validEarliestDate), r2, r3, r4)
    ELSE "later"

\* enrichDump; p is where the clock ticks among the reads.
enrichDump(dmp, p) ==
    LET earliestDate == getEarliestDate(dmp)
        displayDate  ==
            IF earliestDate # NoDate THEN earliestDate
            ELSE IF dmp.created_at.kind # "empty"
                 THEN IF NewDate(dmp.created_at) = NaN THEN ClockRead(1, p)
                      ELSE NewDate(dmp.created_at)
                 ELSE ClockRead(1, p)
        validEarliestDate ==
            IF earliestDate # NoDate /\ earliestDate # NaN THEN earliestDate ELSE NoDate
    IN  [done        |-> TRUE,
         timeBucket  |-> DerivedTimeBucket(validEarliestDate, displayDate,
                                           ClockRead(2, p), ClockRead(3, p), ClockRead(4, p)),
         isOverdue   |-> DerivedIsOverdue(dmp, displayDate, ClockRead(5, p)),
         displayDate |-> displayDate,
         hasReminder |-> dmp.actionItems > 0,
         hasTracking |-> dmp.phones > 0,
         evaluatedAt |-> ClockRead(1, p),
         ticked      |-> ClockRead(1, p) # ClockRead(NReads, p)]

NotEnriched == [done |-> FALSE, timeBucket |-> "later", isOverdue |-> FALSE, displayDate |-> 0,
                hasReminder |-> FALSE, hasTracking |-> FALSE, evaluatedAt |-> 0, ticked |-> FALSE]

\* The evaluation instants: 5 January, 31 January and 1 June of year 0.
ClockDays == {4, 30, 151}
ClockTicks == {d * TicksPerDay + k : d \in ClockDays, k \in 0..(TicksPerDay - 1)}

\* The extracted dates: 1 January, and around each evaluation day the days up
\* to the week boundary and around the month boundary.
DateDays == {0} \cup {d + k : d \in ClockDays, k \in (-1..8) \cup (27..32)}
DateTicks == {d * TicksPerDay + k : d \in DateDays, k \in 0..(TicksPerDay - 1)}

\* A second extracted date, next to the first.
SecondDates == {BadString, IsoString(0), IsoString(400)}

CreatedAts == {EmptyString, BadString} \cup {IsoString(t) : t \in {0} \cup ClockTicks}

RawDump(hasDates, dates, created, n) ==
    [hasDates |-> hasDates, dates |-> dates, created_at |-> created, actionItems |-> n, phones |-> n]

\* The dumps handed to enrichDump.
DumpInputs ==
    {RawDump(TRUE, <<IsoString(t)>>, IsoString(0), 0) : t \in DateTicks}
    \cup {RawDump(TRUE, <<IsoString(t), s>>, IsoString(0), 1) : t \in DateTicks, s \in SecondDates}
    \cup {RawDump(h, ds, c, 0) : h \in {TRUE}, ds \in {<<>>, <<BadString>>, <<BadString, BadString>>},
                                  c \in CreatedAts}
    \cup {RawDump(FALSE, <<>>, c, 1) : c \in CreatedAts}

EnrichInit ==
    /\ clock = 0
    /\ dump = RawDump(FALSE, <<>>, EmptyString, 0)
    /\ enriched = NotEnriched
    /\ dateArg = BadString
    /\ assigned = <<>>

\* enrichDump is checked on every dump of DumpInputs at every instant of ClockTicks.
EnrichInputs ==
    /\ clock \in ClockTicks
    /\ dump \in DumpInputs
    /\ enriched = NotEnriched
    /\ dateArg = BadString
    /\ assigned = <<>>

EnrichFrame == UNCHANGED <<optVars, dumpVars, searchVars, sortVars, authVars,
                       bucketVars, expandVars, ctxVars>>

\* enrichDump(dump), the clock ticking after p of its reads.
Enrich(p) ==
    /\ ~enriched.done
    /\ enriched' = enrichDump(dump, p)
    /\ clock' = ClockRead(NReads, p)
    /\ UNCHANGED <<dump, dateArg, assigned>>
    /\ EnrichFrame

NextEnrich == \E p \in 0..NReads : Enrich(p)

\* Number of assignTimeBucket calls made on one date string.
MaxCalls == 2

\* The clock readings of one assignTimeBucket call: new Date(), isToday, isTomorrow.
AssignReads == 3

\* The date strings handed to assignTimeBucket.
DateArgs == {IsoString(t) : t \in DateTicks} \cup {BadString}

\* assignTimeBucket is checked on every string of DateArgs at every instant of ClockTicks.
AssignInputs ==
    /\ clock \in ClockTicks
    /\ dump = RawDump(FALSE, <<>>, EmptyString, 0)
    /\ enriched = NotEnriched
    /\ dateArg \in DateArgs
    /\ assigned = <<>>

\* assignTimeBucket(dateArg), the clock ticking after p of its reads; at is the
\* instant new Date() returns.
AssignTimeBucket(p) ==
    /\ Len(assigned) < MaxCalls
    /\ assigned' = Append(assigned,
                       [date   |-> dateArg,
                        at     |-> ClockRead(1, p),
                        bucket |-> assignTimeBucket(dateArg, ClockRead(1, p), ClockRead(2, p),
                                                    ClockRead(3, p)),
                        ticked |-> ClockRead(1, p) # ClockRead(AssignReads, p)])
    /\ clock' = ClockRead(AssignReads, p)
    /\ UNCHANGED <<dump, enriched, dateArg>>
    /\ EnrichFrame

NextAssign == \E p \in 0..AssignReads : AssignTimeBucket(p)

(***************************************************************************)
(* Sorting: compareDumps, sortDumps                                        *)
(*                                                                         *)
(* A derived item is reduced to the fields compareDumps reads. sortDumps   *)
(* is [...dumps].sort(compareDumps); Array.prototype.sort is modelled by   *)
(* the algorithm V8 runs on arrays shorter than 64 elements (TimSort with  *)
(* one run: the initial run is found, reversed if strictly descending, and *)
(* the remaining elements are put in place by binary insertion). For a     *)
(* consistent comparator every conforming engine returns the same list,    *)
(* the stably sorted one; for an inconsistent comparator the order is      *)
(* implementation-defined and this is the list V8 returns.                 *)
(***************************************************************************)

\* Lengths of the lists handed to sortDumps: lists of any items up to MaxShort,
\* lists of items that differ in created_at only up to MaxLong.
MaxShort == 3
MaxLong == 7

\* extracted_entities?.urgency; Absent is undefined.
Absent == "absent"
Urgencies == {"critical", "high", "medium", "low", "High", "urgent", Absent}

\* String.prototype.toLowerCase on the labels of Urgencies.
toLowerCase(str) == IF str = "High" THEN "high" ELSE str

getUrgencyWeight(urgency) ==
    IF urgency = Absent THEN 0
    ELSE LET normalized == toLowerCase(urgency)
         IN  IF normalized = "critical" THEN 4
             ELSE IF normalized = "high" THEN 3
             ELSE IF normalized = "medium" THEN 2
             ELSE IF normalized = "low" THEN 1
             ELSE 0

\* A number a comparator returns: a finite value or NaN.
Number(v) == [nan |-> FALSE, v |-> v]
NaNNumber == [nan |-> TRUE, v |-> 0]

\* a - b for two results of getTime().
Minus(a, b) == IF a = NaN \/ b = NaN THEN NaNNumber ELSE Number(a - b)

compareDumps(a, b) ==
    IF a.displayDate # b.displayDate THEN Minus(a.displayDate, b.displayDate)
    ELSE IF getUrgencyWeight(a.urgency) # getUrgencyWeight(b.urgency)
         THEN Number(getUrgencyWeight(b.urgency) - getUrgencyWeight(a.urgency))
         ELSE Minus(NewDate(a.created_at), NewDate(b.created_at))

\* The comparator as Array.prototype.sort calls it: a NaN result counts as +0.
SortCompare(a, b) == IF compareDumps(a, b).nan THEN 0 ELSE compareDumps(a, b).v

\* The length of the run that starts the array; idx is the next element to look at.
RECURSIVE RunLength(_, _, _)
RunLength(a, idx, isDescending) ==
    IF idx > Len(a) THEN idx - 1
    ELSE LET order == SortCompare(a[idx], a[idx - 1])
         IN  IF (isDescending /\ order >= 0) \/ (~isDescending /\ order < 0)
             THEN idx - 1
             ELSE RunLength(a, idx + 1, isDescending)

ReverseRange(a, n) == [k \in 1..Len(a) |-> IF k <= n THEN a[n + 1 - k] ELSE a[k]]

\* Where pivot goes among a[left..right-1].
RECURSIVE BinarySearch(_, _, _, _)
BinarySearch(a, pivot, left, right) ==
    IF left >= right THEN left
    ELSE LET mid == left + ((right - left) \div 2)
         IN  IF SortCompare(pivot, a[mid]) < 0
             THEN BinarySearch(a, pivot, left, mid)
             ELSE BinarySearch(a, pivot, mid + 1, right)

\* a[start] moved to position pos, the elements between shifted right.
InsertAt(a, start, pos) ==
    [k \in 1..Len(a) |-> IF k < pos \/ k > start THEN a[k]
                         ELSE IF k = pos THEN a[start]
                         ELSE a[k - 1]]

RECURSIVE BinaryInsertionSort(_, _)
BinaryInsertionSort(a, start) ==
    IF start > Len(a) THEN a
    ELSE BinaryInsertionSort(InsertAt(a, start, BinarySearch(a, a[start], 1, start)), start + 1)

ArraySort(a) ==
    IF Len(a) < 2 THEN a
    ELSE LET isDescending == SortCompare(a[2], a[1]) < 0
             runLength    == RunLength(a, 3, isDescending)
             run          == IF isDescending THEN ReverseRange(a, runLength) ELSE a
         IN  BinaryInsertionSort(run, runLength + 1)

\* [...dumps].sort(compareDumps): the copy is sorted, dumps is left as it is.
sortDumps(dumpList) == ArraySort(dumpList)

Item(displayDate, urgency, created) ==
    [id |-> 0, displayDate |-> displayDate, urgency |-> urgency, created_at |-> created]

SortCreatedAts == {BadString, IsoString(1), IsoString(2)}

\* Items of every urgency, and items of three urgencies.
AllItems == {Item(dd, u, c) : dd \in {1, 2}, u \in Urgencies, c \in SortCreatedAts}
SomeItems == {Item(dd, u, c) : dd \in {1, 2}, u \in {"critical", "high", Absent},
                               c \in SortCreatedAts}
AlikeItems == {Item(1, "high", c) : c \in SortCreatedAts}

\* The items of a list are told apart by id, their position in the list.
Numbered(list) == [k \in 1..Len(list) |-> [list[k] EXCEPT !.id = k]]

ListsOf(S, lens) == UNION {[1..n -> S] : n \in lens}

NotSorted == [done |-> FALSE, given |-> <<>>, out |-> <<>>, twice |-> FALSE, again |-> <<>>]

SortInit ==
    /\ sortInput = <<>>
    /\ sorted = NotSorted

\* sortDumps is checked on every pair of items, on the short lists of SomeItems
\* and on the longer lists of AlikeItems.
SortInputs ==
    /\ sortInput \in {Numbered(l) : l \in ListsOf(AllItems, {2})
                                        \cup ListsOf(SomeItems, 0..MaxShort)
                                        \cup ListsOf(AlikeItems, 0..MaxLong)}
    /\ sorted = NotSorted

SortFrame == UNCHANGED <<optVars, dumpVars, searchVars, enrichVars, authVars,
                       bucketVars, expandVars, ctxVars>>

\* sortDumps(sortInput).
SortDumps ==
    /\ ~sorted.done
    /\ sorted' = [sorted EXCEPT !.done = TRUE, !.given = sortInput, !.out = sortDumps(sortInput)]
    /\ UNCHANGED sortInput
    /\ SortFrame

\* sortDumps of the list sortDumps returned.
SortDumpsAgain ==
    /\ sorted.done
    /\ ~sorted.twice
    /\ sorted' = [sorted EXCEPT !.twice = TRUE, !.again = sortDumps(sorted.out)]
    /\ UNCHANGED sortInput
    /\ SortFrame

NextSort == SortDumps \/ SortDumpsAgain

(***************************************************************************)
(* Dashboard: useTimeBuckets, groupByTimeBucket, sortTimeBucketGroups      *)
(*                                                                         *)
(* The dumps of the dashboard carry the fields enrichDump and compareDumps *)
(* read. pos is the identity of the object enrichDump returned: the index  *)
(* of the dump it was made from.                                           *)
(***************************************************************************)

\* Length of the lists the backend answers with.
MaxList == 2

\* Ticks of the clock followed by the model.
MaxTicks == 1

BUCKETS == <<"overdue", "today", "tomorrow", "nextWeek", "nextMonth", "later">>

\* groupByTimeBucket without its last group.
groupByTimeBucketDated(dumpList) ==
    [b \in {BUCKETS[i] : i \in 1..Len(BUCKETS)} |->
        IF b = "later" THEN <<>> ELSE SelectSeq(dumpList, LAMBDA d : d.timeBucket = b)]

groupByTimeBucket(dumpList) ==
    [b \in {BUCKETS[i] : i \in 1..Len(BUCKETS)} |->
        SelectSeq(dumpList, LAMBDA d : d.timeBucket = b)]

sortTimeBucketGroups(groups) == [b \in DOMAIN groups |-> sortDumps(groups[b])]

\* dumps.map(enrichDump); the clock ticks while dump k is enriched, after p of
\* the reads made for it (k = 0: the clock does not tick).
EnrichedDumps(dumpList, k, p) ==
    [j \in 1..Len(dumpList) |->
        LET derived == enrichDump(dumpList[j], IF k = 0 \/ j < k THEN NReads
                                              ELSE IF j = k THEN p ELSE 0)
        IN  Spread(dumpList[j], [timeBucket  |-> derived.timeBucket,
                                 isOverdue   |-> derived.isOverdue,
                                 displayDate |-> derived.displayDate,
                                 pos         |-> j])]

useTimeBuckets(dumpList, k, p) ==
    LET sortedGroups == sortTimeBucketGroups(groupByTimeBucket(EnrichedDumps(dumpList, k, p)))
    IN  [i \in 1..Len(BUCKETS) |->
            [bucket     |-> BUCKETS[i],
             dumps      |-> sortedGroups[BUCKETS[i]],
             isExpanded |-> BUCKETS[i] = "overdue" \/ BUCKETS[i] = "today",
             count      |-> Len(sortedGroups[BUCKETS[i]])]]

\* The first render, at 23:59:59 of 5 January.
FirstClock == 4 * TicksPerDay + (TicksPerDay - 1)

\* Extracted dates: none, 4 January, 6 January, 1 March.
BucketDays == {3, 5, 60}
BucketDates == {<<>>} \cup {<<IsoString(d * TicksPerDay)>> : d \in BucketDays}

BucketDump(id, dates, urgency) ==
    Spread(RawDump(TRUE, dates, IsoString(0), 0), [id |-> id, urgency |-> urgency])

BucketIds == <<"a", "b", "c", "d">>

\* The lists of the backend: dump j of a list has the id BucketIds[j].
BucketLists ==
    {[j \in 1..Len(l) |-> BucketDump(BucketIds[j], l[j], "high")] :
        l \in ListsOf(BucketDates, 0..MaxList)}

\* Reads of the clock after which the tick is followed.
TickPoints == {0, 2}

\* Partial<Dump> applied by updateDumpLocally, by the optimistic update, the
\* commit and the rollback.
BucketPatches == {[dates |-> ds] : ds \in {<<>>, <<IsoString(5 * TicksPerDay)>>}}
                    \cup {[urgency |-> "critical"]}

BucketInit ==
    /\ bucketList = <<>>
    /\ timeBuckets = [i \in 1..Len(BUCKETS) |->
                          [bucket |-> BUCKETS[i], dumps |-> <<>>,
                           isExpanded |-> BUCKETS[i] = "overdue" \/ BUCKETS[i] = "today",
                           count |-> 0]]

BucketFrame == UNCHANGED <<optVars, dumpVars, searchVars, sortVars, authVars, expandVars,
                           ctxVars, dump, enriched, dateArg, assigned>>

\* The render that follows a change of dumps: useMemo computes the groups again.
RenderBuckets(dumpList, k, p) ==
    /\ k \in 0..Len(dumpList)
    /\ k = 0 => p = 0
    /\ k > 0 => clock < FirstClock + MaxTicks
    /\ bucketList' = dumpList
    /\ timeBuckets' = useTimeBuckets(dumpList, k, p)
    /\ clock' = IF k > 0 THEN clock + 1 ELSE clock
    /\ BucketFrame

\* setDumps(response.data.dumps), and the render.
BucketsSetDumps(dumpList, k, p) ==
    /\ Len(dumpList) <= MaxList
    /\ RenderBuckets(dumpList, k, p)

\* updateDumpLocally(dumpId, updates), and the render.
BucketsUpdateDumpLocally(dumpId, updates, k, p) ==
    /\ \E j \in 1..Len(bucketList) : bucketList[j].id = dumpId
    /\ RenderBuckets(MapUpdate(bucketList, dumpId, updates), k, p)

NextBuckets ==
    \/ \E l \in BucketLists, k \in 0..MaxList, p \in TickPoints : BucketsSetDumps(l, k, p)
    \/ \E d \in {"a", "b"}, u \in BucketPatches, k \in 0..MaxList, p \in TickPoints :
            BucketsUpdateDumpLocally(d, u, k, p)

(***************************************************************************)
(* TimeBucket: the collapsible section of one bucket                       *)
(***************************************************************************)

BucketNames == {BUCKETS[i] : i \in 1..Len(BUCKETS)}

\* `timeBucket_${timeBucket.bucket}_expanded`
localStorageKey(bucket) == "timeBucket_" \o bucket \o "_expanded"

\* String(isExpanded)
String(b) == IF b THEN "true" ELSE "false"

\* The timeBucket prop of the component of a bucket.
GroupOf(bucket) == timeBuckets[CHOOSE i \in 1..Len(timeBuckets) : timeBuckets[i].bucket = bucket]

\* The useState initializer that does not look at localStorage.
InitialExpandedDefault(bucket) == GroupOf(bucket).isExpanded

\* The useState initializer.
InitialExpanded(bucket) ==
    LET stored == bucketStorage[localStorageKey(bucket)]
    IN  IF stored # Null THEN stored = "true" ELSE GroupOf(bucket).isExpanded

ExpandInit ==
    /\ mounted = {}
    /\ isExpanded = [b \in BucketNames |-> FALSE]
    /\ bucketStorage = [key \in {localStorageKey(b) : b \in BucketNames} |-> Null]

ExpandFrame == UNCHANGED <<optVars, dumpVars, searchVars, enrichVars, sortVars, authVars,
                           bucketVars, ctxVars>>

\* The effect that follows a render in which isExpanded changed.
Persist(bucket, expanded) ==
    bucketStorage' = [bucketStorage EXCEPT ![localStorageKey(bucket)] = String(expanded)]

\* The component of a bucket is mounted: first render and its effect.
MountTimeBucket(bucket) ==
    /\ bucket \notin mounted
    /\ mounted' = mounted \cup {bucket}
    /\ isExpanded' = [isExpanded EXCEPT ![bucket] = InitialExpanded(bucket)]
    /\ Persist(bucket, InitialExpanded(bucket))
    /\ ExpandFrame

\* toggleExpanded, the render and its effect.
ToggleExpanded(bucket) ==
    /\ bucket \in mounted
    /\ isExpanded' = [isExpanded EXCEPT ![bucket] = ~isExpanded[bucket]]
    /\ Persist(bucket, ~isExpanded[bucket])
    /\ UNCHANGED mounted
    /\ ExpandFrame

\* The component is unmounted: its state is gone, the stored value stays.
UnmountTimeBucket(bucket) ==
    /\ bucket \in mounted
    /\ mounted' = mounted \ {bucket}
    /\ isExpanded' = [isExpanded EXCEPT ![bucket] = FALSE]
    /\ UNCHANGED bucketStorage
    /\ ExpandFrame

NextExpand ==
    \/ \E b \in BucketNames : MountTimeBucket(b)
    \/ \E b \in BucketNames : ToggleExpanded(b)
    \/ \E b \in BucketNames : UnmountTimeBucket(b)

(***************************************************************************)
(* ApiService: tokens and the response interceptor                         *)
(*                                                                         *)
(* chain is a stack: chain[1] is the request the application made, each    *)
(* further element a POST /auth/refresh the interceptor issued while       *)
(* handling the 401 of the element below it. The last element is on the    *)
(* wire; the elements below it await the refresh call above them.          *)
(***************************************************************************)

\* POST /auth/refresh calls after which the model stops following a request.
MaxRefresh == 3

Unauthorized == 401
Statuses == {200, Unauthorized, 500}

\* AuthTokens handed to setTokens by login, with and without a refresh token.
LoginTokens == {[accessToken |-> "a1", refreshToken |-> r] : r \in {Null, "r1"}}

\* Bodies of a successful POST /auth/refresh.
RefreshBodies == {[accessToken |-> "a2", refreshToken |-> r] : r \in {Null, "r2"}}

NoBody == [accessToken |-> Null, refreshToken |-> Null]

AuthInit ==
    /\ accessToken = Null
    /\ refreshToken = Null
    /\ storage = [accessToken |-> Null, refreshToken |-> Null]
    /\ location = "/"
    /\ chain = <<>>
    /\ refreshPosts = 0
    /\ resends = 0
    /\ outcome = "none"
    /\ lastStatus = 0

AuthFrame == UNCHANGED <<optVars, dumpVars, searchVars, enrichVars, sortVars,
                       bucketVars, expandVars, ctxVars>>

\* tokens.refreshToken || other
OrElse(token, other) == IF token = Null THEN other ELSE token

\* setTokens: the refresh token is only persisted when there is one.
SetTokensTo(tokens) ==
    /\ accessToken' = tokens.accessToken
    /\ refreshToken' = OrElse(tokens.refreshToken, Null)
    /\ storage' = [accessToken  |-> tokens.accessToken,
                   refreshToken |-> OrElse(tokens.refreshToken, storage.refreshToken)]

ClearTokensNow ==
    /\ accessToken' = Null
    /\ refreshToken' = Null
    /\ storage' = [accessToken |-> Null, refreshToken |-> Null]

\* apiService.setTokens(tokens), as login calls it.
SetTokens(tokens) ==
    /\ SetTokensTo(tokens)
    /\ UNCHANGED <<location, chain, refreshPosts, resends, outcome, lastStatus>>
    /\ AuthFrame

\* apiService.clearTokens(), as logout calls it.
ClearTokens ==
    /\ ClearTokensNow
    /\ UNCHANGED <<location, chain, refreshPosts, resends, outcome, lastStatus>>
    /\ AuthFrame

\* new ApiService(): the page is loaded and loadTokens reads the stored tokens;
\* the requests of the page that was left are gone.
LoadTokens ==
    /\ accessToken' = storage.accessToken
    /\ refreshToken' = storage.refreshToken
    /\ chain' = <<>>
    /\ outcome' = "none"
    /\ lastStatus' = 0
    /\ location' = "/"
    /\ UNCHANGED <<storage, refreshPosts, resends>>
    /\ AuthFrame

Sent(url) == [url |-> url, retry |-> FALSE]

\* The request on the wire, and the chain without it.
Top == chain[Len(chain)]
Below == SubSeq(chain, 1, Len(chain) - 1)

\* The application makes a request through this.client.
ApiRequest ==
    /\ chain = <<>>
    /\ chain' = <<Sent("request")>>
    /\ refreshPosts' = 0
    /\ resends' = 0
    /\ outcome' = "pending"
    /\ lastStatus' = 0
    /\ UNCHANGED <<accessToken, refreshToken, storage, location>>
    /\ AuthFrame

\* The request on the wire is answered with a 2xx status. The promise of the
\* application's request resolves; a refresh call resolves into the handler
\* below it, which stores the tokens of body and sends its own request again.
ResponseOk(body) ==
    /\ chain # <<>>
    /\ IF Len(chain) = 1
       THEN /\ body = NoBody
            /\ chain' = <<>>
            /\ outcome' = "resolved"
            /\ UNCHANGED <<accessToken, refreshToken, storage, refreshPosts, resends>>
       ELSE /\ body \in RefreshBodies
            /\ SetTokensTo([accessToken  |-> body.accessToken,
                            refreshToken |-> OrElse(body.refreshToken, refreshToken)])
            /\ chain' = Below
            /\ IF Below[Len(Below)].url = "request"
               THEN resends' = resends + 1 /\ UNCHANGED refreshPosts
               ELSE /\ refreshPosts < MaxRefresh
                    /\ refreshPosts' = refreshPosts + 1
                    /\ UNCHANGED resends
            /\ UNCHANGED outcome
    /\ lastStatus' = 200
    /\ UNCHANGED location
    /\ AuthFrame

\* The request on the wire is answered with 401 and was not retried yet:
\* _retry is set and, with a refresh token, POST /auth/refresh is issued through
\* this.client; without one the tokens are cleared and the error is passed on.
InterceptUnauthorized ==
    /\ chain # <<>>
    /\ ~Top.retry
    /\ IF refreshToken # Null
       THEN /\ refreshPosts < MaxRefresh
            /\ chain' = Append([chain EXCEPT ![Len(chain)].retry = TRUE], Sent("refresh"))
            /\ refreshPosts' = refreshPosts + 1
            /\ UNCHANGED <<accessToken, refreshToken, storage, location, resends, outcome>>
       ELSE /\ ClearTokensNow
            /\ location' = "/login"
            /\ chain' = <<>>
            /\ outcome' = "rejected"
            /\ UNCHANGED <<refreshPosts, resends>>
    /\ lastStatus' = Unauthorized
    /\ AuthFrame

\* The request on the wire fails otherwise (another status, or a 401 after
\* _retry was set): its promise rejects, and so does every handler that awaits
\* a refresh call, after clearing the tokens and redirecting to /login.
InterceptError(status) ==
    /\ chain # <<>>
    /\ status # 200
    /\ status = Unauthorized => Top.retry
    /\ IF Len(chain) > 1
       THEN ClearTokensNow /\ location' = "/login"
       ELSE UNCHANGED <<accessToken, refreshToken, storage, location>>
    /\ chain' = <<>>
    /\ outcome' = "rejected"
    /\ lastStatus' = status
    /\ UNCHANGED <<refreshPosts, resends>>
    /\ AuthFrame

NextAuth ==
    \/ \E t \in LoginTokens : SetTokens(t)
    \/ ClearTokens
    \/ LoadTokens
    \/ ApiRequest
    \/ \E b \in RefreshBodies \cup {NoBody} : ResponseOk(b)
    \/ InterceptUnauthorized
    \/ \E st \in Statuses : InterceptError(st)

(***************************************************************************)
(* AuthProvider: initAuth, login, logout                                   *)
(*                                                                         *)
(* The value stored under the key user is absent, a string JSON.parse      *)
(* rejects, or the JSON text of a value (a user, or null).                 *)
(***************************************************************************)

NoItem  == [kind |-> "none", v |-> Null]
BadJson == [kind |-> "bad", v |-> Null]

\* JSON.stringify(userData)
JSONstringify(v) == [kind |-> "json", v |-> v]

\* Answers of POST /auth/login as ApiService.post returns them: success with
\* tokens and a user, success with tokens and no user object, failure.
LoginResponses ==
    {[success |-> TRUE, tokens |-> t, user |-> u] : t \in LoginTokens, u \in {"u1", "u2", Null}}
        \cup {[success |-> FALSE, tokens |-> NoBody, user |-> Null]}

CtxInit ==
    /\ user = Null
    /\ authLoading = TRUE
    /\ authError = Null
    /\ isAuthenticated = FALSE
    /\ storedUser = NoItem
    /\ loginPending = FALSE
    /\ authOp = "load"

\* What an earlier visit left in localStorage.
CtxLeftovers ==
    /\ storage \in {[accessToken |-> a, refreshToken |-> r] :
                        a \in {Null, "a1"}, r \in {Null, "r1"}}
    /\ storedUser \in {NoItem, BadJson, JSONstringify("u1"), JSONstringify(Null)}
    /\ accessToken = storage.accessToken
    /\ refreshToken = storage.refreshToken
    /\ user = Null
    /\ authLoading = TRUE
    /\ authError = Null
    /\ isAuthenticated = FALSE
    /\ loginPending = FALSE
    /\ authOp = "load"
    /\ location = "/"
    /\ chain = <<>>
    /\ refreshPosts = 0
    /\ resends = 0
    /\ outcome = "none"
    /\ lastStatus = 0

CtxFrame == UNCHANGED <<optVars, dumpVars, searchVars, enrichVars, sortVars, bucketVars,
                        expandVars, location, chain, refreshPosts, resends, outcome,
                        lastStatus>>

\* The render that follows a change of state: isAuthenticated is computed from
\* the new user and the token the service holds.
Rendered ==
    isAuthenticated' = IF <<user', authLoading', authError'>> # <<user, authLoading, authError>>
                       THEN user' # Null /\ accessToken' # Null
                       ELSE isAuthenticated

\* The page is loaded: the ApiService is constructed and the provider mounted.
PageLoad ==
    /\ authOp # "load"
    /\ accessToken' = storage.accessToken
    /\ refreshToken' = storage.refreshToken
    /\ user' = Null
    /\ authLoading' = TRUE
    /\ authError' = Null
    /\ isAuthenticated' = FALSE
    /\ loginPending' = FALSE
    /\ authOp' = "load"
    /\ UNCHANGED <<storage, storedUser>>
    /\ CtxFrame

\* initAuth, the effect of the first render.
InitAuth ==
    /\ authOp = "load"
    /\ IF accessToken # Null
       THEN IF storedUser.kind = "json" /\ storedUser.v # Null
            THEN /\ user' = storedUser.v
                 /\ UNCHANGED <<accessToken, refreshToken, storage>>
            ELSE IF storedUser.kind = "json"
            THEN \* JSON.parse gives null: setUser(null), userData.language throws
                 /\ user' = Null
                 /\ ClearTokensNow
            ELSE \* no item, or JSON.parse throws
                 /\ user' = user
                 /\ ClearTokensNow
       ELSE UNCHANGED <<user, accessToken, refreshToken, storage>>
    /\ authLoading' = FALSE
    /\ authOp' = "initAuth"
    /\ UNCHANGED <<authError, storedUser, loginPending>>
    /\ Rendered
    /\ CtxFrame

\* login, up to its await.
Login ==
    /\ authOp # "load"
    /\ ~loginPending
    /\ authError' = Null
    /\ authLoading' = TRUE
    /\ loginPending' = TRUE
    /\ authOp' = "login"
    /\ UNCHANGED <<user, storedUser, accessToken, refreshToken, storage>>
    /\ Rendered
    /\ CtxFrame

\* login, after POST /auth/login was answered.
LoginAnswered(response) ==
    /\ loginPending
    /\ IF response.success
       THEN /\ SetTokensTo(response.tokens)
            /\ IF response.user # Null
               THEN /\ user' = response.user
                    /\ storedUser' = JSONstringify(response.user)
                    /\ UNCHANGED authError
               ELSE \* response.data.user.id throws
                    /\ authError' = "Cannot read properties of undefined"
                    /\ UNCHANGED <<user, storedUser>>
       ELSE /\ authError' = "Login failed"
            /\ UNCHANGED <<user, storedUser, accessToken, refreshToken, storage>>
    /\ authLoading' = FALSE
    /\ loginPending' = FALSE
    /\ authOp' = "login"
    /\ Rendered
    /\ CtxFrame

\* logout that leaves the stored user record.
LogoutTokensOnly ==
    /\ authOp # "load"
    /\ ClearTokensNow
    /\ user' = Null
    /\ authError' = Null
    /\ authOp' = "logout"
    /\ UNCHANGED <<authLoading, loginPending, storedUser>>
    /\ Rendered
    /\ CtxFrame

\* logout
Logout ==
    /\ authOp # "load"
    /\ ClearTokensNow
    /\ storedUser' = NoItem
    /\ user' = Null
    /\ authError' = Null
    /\ authOp' = "logout"
    /\ UNCHANGED <<authLoading, loginPending>>
    /\ Rendered
    /\ CtxFrame

\* clearError
CtxClearError ==
    /\ authOp # "load"
    /\ authError # Null
    /\ authError' = Null
    /\ UNCHANGED <<user, authLoading, storedUser, loginPending, authOp, accessToken,
                   refreshToken, storage>>
    /\ Rendered
    /\ CtxFrame

NextCtx ==
    \/ CtxClearError
    \/ PageLoad
    \/ InitAuth
    \/ Login
    \/ \E r \in LoginResponses : LoginAnswered(r)
    \/ Logout

(***************************************************************************)
(* Specifications                                                          *)
(***************************************************************************)

Init ==
    /\ OptInit /\ DumpInit /\ SearchInit /\ EnrichInit /\ SortInit /\ AuthInit
    /\ BucketInit /\ ExpandInit /\ CtxInit

SpecOpt == Init /\ [][NextOpt]_vars
SpecDumps == Init /\ [][NextDumps]_vars
SpecSearch == Init /\ [][NextSearch]_vars
InitEnrich ==
    /\ OptInit /\ DumpInit /\ SearchInit /\ EnrichInputs /\ SortInit /\ AuthInit
    /\ BucketInit /\ ExpandInit /\ CtxInit
SpecEnrich == InitEnrich /\ [][NextEnrich]_vars
InitAssign ==
    /\ OptInit /\ DumpInit /\ SearchInit /\ AssignInputs /\ SortInit /\ AuthInit
    /\ BucketInit /\ ExpandInit /\ CtxInit
SpecAssign == InitAssign /\ [][NextAssign]_vars
InitSort ==
    /\ OptInit /\ DumpInit /\ SearchInit /\ EnrichInit /\ SortInputs /\ AuthInit
    /\ BucketInit /\ ExpandInit /\ CtxInit
SpecSort == InitSort /\ [][NextSort]_vars
SpecAuth == Init /\ [][NextAuth]_vars
InitBuckets ==
    /\ OptInit /\ DumpInit /\ SearchInit /\ SortInit /\ AuthInit /\ BucketInit /\ ExpandInit
    /\ CtxInit
    /\ clock = FirstClock
    /\ dump = RawDump(FALSE, <<>>, EmptyString, 0)
    /\ enriched = NotEnriched
    /\ dateArg = BadString
    /\ assigned = <<>>
SpecBuckets == InitBuckets /\ [][NextBuckets]_vars
SpecExpand == Init /\ [][NextExpand]_vars
SpecReview == Init /\ [][NextReview]_vars
InitCtx ==
    /\ OptInit /\ DumpInit /\ SearchInit /\ EnrichInit /\ SortInit /\ BucketInit /\ ExpandInit
    /\ CtxLeftovers
SpecCtx == InitCtx /\ [][NextCtx]_vars

(***************************************************************************)
(* Properties: useOptimistic                                               *)
(***************************************************************************)

Settles(i, to) == inv[i].pc = "pending" /\ inv'[i].pc = to

NoneInFlight == \A i \in 1..MaxInv : inv[i].pc # "pending"

\* C3 as claimed: whenever no invocation is in flight, state.data is a server
\* result or data held before any optimistic update, never an onUpdate value.
C3_NeverLeftOptimistic == NoneInFlight => optState.data.src # "opt"

\* C3 amended: the same, provided every execute was invoked while no other
\* invocation was in flight and through a closure rendered from the current state.
C3_NeverLeftOptimisticWhenSerialized ==
    (NoneInFlight /\ \A i \in 1..MaxInv : ~inv[i].stale) => optState.data.src # "opt"

C3_Witness ==
    /\ NoneInFlight
    /\ \A i \in 1..MaxInv : ~inv[i].stale
    /\ \E i, j \in 1..MaxInv : inv[i].pc = "rolledBack" /\ inv[j].pc = "committed"
    /\ optState.data.src # "opt"

\* C4: per invocation the transitions are idle -> pending -> committed or
\* rolled back; the optimistic state is set before onCommit is called, onCommit
\* is called exactly once, and exactly one terminal state is entered.
LogOf(pc) ==
    CASE pc = "idle"       -> <<>>
      [] pc = "pending"    -> <<"setOptimistic", "onCommit">>
      [] pc = "committed"  -> <<"setOptimistic", "onCommit", "setCommitted">>
      [] pc = "rolledBack" -> <<"setOptimistic", "onCommit", "setRolledBack">>

C18_RejectionReturnsMessage ==
    [][\A i \in 1..MaxInv : Settles(i, "rolledBack") =>
          /\ inv'[i].ret.success = FALSE
          /\ inv'[i].ret.error \notin {Null, ""}
          /\ inv'[i].log = <<"setOptimistic", "onCommit", "setRolledBack">>]_vars

(***************************************************************************)
(* Properties: DumpsProvider                                               *)
(***************************************************************************)

Awaiting(i) == ops[i].pc \in {"awaitUpdate", "awaitApprove", "awaitReject"}

Fails(i) == Awaiting(i) /\ ops'[i].pc = "failed"

\* C5 as claimed: after accept or reject fails at the remote call, the affected
\* item of the list is field-for-field the item as it was when the action was
\* invoked, and every other item is unchanged.
C5_FailureRestoresItem ==
    [][\A i \in Callers : Fails(i) =>
          /\ Len(dumps') = Len(dumps)
          /\ \A k \in 1..Len(dumps') :
                IF dumps'[k].id = ops[i].dumpId
                THEN dumps'[k] = ops[i].before
                ELSE dumps'[k] = dumps[k]]_vars

C19_AlwaysResolves ==
    [][\A i \in Callers :
          (ops'[i] # ops[i] /\ ops'[i].pc \notin {"awaitUpdate", "awaitApprove", "awaitReject"}) =>
              /\ ops'[i].pc \in {"refused", "succeeded", "failed"}
              /\ ops'[i].ret.success <=> ops'[i].pc = "succeeded"
              /\ ops'[i].ret.success => ops'[i].ret.error = Null
              /\ ~ops'[i].ret.success => ops'[i].ret.error \notin {Null, ""}]_vars

\* updateDump threw an Error without a message: the catch branch returned
\* its own fallback.
C19_Witness ==
    \E i \in Callers :
        /\ ops[i].kind = "accept"
        /\ ops[i].pc = "failed"
        /\ ops[i].calls = <<"updateDump">>
        /\ ops[i].ret = [success |-> FALSE, error |-> "Failed to accept dump"]

\* C22: rejectDumpWithOptimism called with a reason whose trimmed length is
\* below 10 returns {success: false, error} at once: the list is not touched
\* and the reject call is not issued.
C22_ShortReasonRefused ==
    [][\A i \in Callers :
          (ops'[i] # ops[i] /\ ops'[i].kind = "reject" /\ ops'[i].reasonLen < MinReasonLen) =>
              /\ ops'[i].pc = "refused"
              /\ ops'[i].ret = [success |-> FALSE,
                                error |-> "Rejection reason must be at least 10 characters"]
              /\ ops'[i].calls = <<>>
              /\ dumps' = dumps]_vars

\* A reason of 9 characters was refused for an item that is in the list.
C22_Witness ==
    \E i \in Callers :
        /\ ops[i].kind = "reject"
        /\ ops[i].pc = "refused"
        /\ ops[i].reasonLen = 9
        /\ Find(dumps, ops[i].dumpId) # NoDump
        /\ Find(dumpsClosure, ops[i].dumpId) # NoDump

(***************************************************************************)
(* Properties: search                                                      *)
(***************************************************************************)

InFlight(k) == reqs[k] \in {"inflight", "aborted"}

\* C7 as claimed: once no search request is in flight, the results held are
\* those of the most recently issued search; the answer to an earlier request
\* never replaces the results of a later one.
C7_LatestSearchWins ==
    (/\ Len(reqs) > 0
     /\ \A k \in 1..Len(reqs) : ~InFlight(k)
     /\ reqs[Len(reqs)] = "answered"
     /\ results.kind = "data")
    => results.req = Len(reqs)

\* C8 as claimed: at every moment at most one search request is in flight
\* whose abort signal has not been triggered.
C8_AtMostOneLiveRequest ==
    Cardinality({k \in 1..Len(reqs) : reqs[k] = "inflight"}) <= 1

(***************************************************************************)
(* Properties: time buckets                                                *)
(***************************************************************************)

\* The item has at least one extracted date that parses.
HasValidDate(dmp) == dmp.hasDates /\ \E k \in 1..Len(dmp.dates) : dmp.dates[k].kind = "iso"

\* C9: an item whose extracted dates are absent, empty or all unparseable is
\* never overdue, at any evaluation instant and for any creation timestamp.
C9_NoDatesNeverOverdue ==
    (enriched.done /\ ~HasValidDate(dump)) => enriched.isOverdue = FALSE

C9_Witness ==
    /\ enriched.done
    /\ ~HasValidDate(dump)
    /\ dump.created_at.kind = "iso"
    /\ enriched.displayDate < clock - TicksPerDay
    /\ enriched.isOverdue = FALSE

\* The calendar-day-boundary algorithm: the first rule that matches decides.
BucketOf(d, now) ==
    LET today == DayIndex(now)
    IN  IF DayIndex(d) < today THEN "overdue"
        ELSE IF DayIndex(d) = today THEN "today"
        ELSE IF DayIndex(d) = today + 1 THEN "tomorrow"
        ELSE IF DayIndex(d) < today + 7 THEN "nextWeek"
        ELSE IF d < addMonths(today * TicksPerDay, 1) THEN "nextMonth"
        ELSE "later"

AtOneInstant(k) == ~assigned[k].ticked /\ assigned[k].date.kind = "iso"

\* The first rule that matches, for a date d and an evaluation instant now.
FirstMatch(d, now) ==
    CASE d < startOfDay(now) -> "overdue"
      [] d >= startOfDay(now) /\ DayIndex(d) = DayIndex(now) -> "today"
      [] DayIndex(d) = DayIndex(now) + 1 -> "tomorrow"
      [] DayIndex(d) > DayIndex(now) + 1 /\ d < startOfDay(now) + 7 * TicksPerDay -> "nextWeek"
      [] d >= startOfDay(now) + 7 * TicksPerDay /\ DayIndex(d) > DayIndex(now) + 1
            /\ d < addMonths(startOfDay(now), 1) -> "nextMonth"
      [] OTHER -> "later"

C15_SameInputsSameBucket ==
    \A i, j \in 1..Len(assigned) :
        (assigned[i].date = assigned[j].date /\ assigned[i].at = assigned[j].at) =>
            assigned[i].bucket = assigned[j].bucket

(***************************************************************************)
(* Properties: enrichDump                                                  *)
(***************************************************************************)

\* The extracted date strings of a dump that parse to a valid date.
ValidDates(dmp) ==
    IF dmp.hasDates
    THEN {dmp.dates[k].t : k \in {j \in 1..Len(dmp.dates) : dmp.dates[j].kind = "iso"}}
    ELSE {}

CreatedMonthsAgo ==
    /\ enriched.done
    /\ ~dump.hasDates \/ dump.dates = <<>>
    /\ dump.created_at = IsoString(0)
    /\ DayIndex(enriched.evaluatedAt) = 151

\* C13: an item without extracted dates that was created months before the
\* evaluation instant is not overdue and is in bucket later.
C13_OldUndatedItemIsLater ==
    CreatedMonthsAgo => (enriched.isOverdue = FALSE /\ enriched.timeBucket = "later")

C13_Witness ==
    /\ CreatedMonthsAgo
    /\ enriched.displayDate = 0
    /\ enriched.isOverdue = FALSE
    /\ enriched.timeBucket = "later"

\* C14: enrichDump returns for every dump, and displayDate is the earliest of
\* the extracted dates that parse, else the creation timestamp if it parses,
\* else the current instant; unparseable extracted dates have no influence.
C14_DisplayDateChoice ==
    /\ ~enriched.done => ENABLED (\E p \in 0..NReads : Enrich(p))
    /\ enriched.done =>
          enriched.displayDate =
              IF ValidDates(dump) # {} THEN SetMin(ValidDates(dump))
              ELSE IF dump.created_at.kind = "iso" THEN dump.created_at.t
              ELSE enriched.evaluatedAt

C14_Witness ==
    /\ enriched.done
    /\ Len(dump.dates) = 2
    /\ dump.dates[1].kind = "iso"
    /\ dump.dates[2].kind = "iso"
    /\ dump.dates[2].t < dump.dates[1].t
    /\ enriched.displayDate = dump.dates[2].t

(***************************************************************************)
(* Properties: sortDumps                                                   *)
(***************************************************************************)

\* The urgency weights the ordering is stated with.
UrgencyWeight(u) ==
    CASE u = "critical" -> 4
      [] u = "high"     -> 3
      [] u = "medium"   -> 2
      [] u = "low"      -> 1
      [] OTHER          -> 0

HasCreated(x) == x.created_at.kind = "iso"

\* The urgency of x is absent or spelled in lower case, as the labels of the
\* weights are; the ordering is stated for such items.
Labelled(x) == x.urgency \in {"critical", "high", "medium", "low", "urgent", Absent}

\* x comes strictly before y in the key (displayDate ascending, urgency weight
\* descending, created_at ascending).
KeyBefore(x, y) ==
    \/ x.displayDate < y.displayDate
    \/ /\ x.displayDate = y.displayDate
       /\ UrgencyWeight(x.urgency) > UrgencyWeight(y.urgency)
    \/ /\ x.displayDate = y.displayDate
       /\ UrgencyWeight(x.urgency) = UrgencyWeight(y.urgency)
       /\ HasCreated(x) /\ HasCreated(y)
       /\ x.created_at.t < y.created_at.t

\* x and y tie on displayDate, urgency weight and creation timestamp.
KeyTie(x, y) ==
    /\ x.displayDate = y.displayDate
    /\ UrgencyWeight(x.urgency) = UrgencyWeight(y.urgency)
    /\ HasCreated(x) /\ HasCreated(y)
    /\ x.created_at.t = y.created_at.t

IsPermutation(out, given) ==
    /\ Len(out) = Len(given)
    /\ \A k \in 1..Len(given) : \E j \in 1..Len(out) : out[j] = given[k]

\* C16: sortDumps returns the items of its input ordered by the key: no item
\* of the result comes after an item that the key puts strictly after it.
C16_OrderedByKey ==
    sorted.done =>
        /\ IsPermutation(sorted.out, sorted.given)
        /\ \A i, j \in 1..Len(sorted.out) :
              (i < j /\ Labelled(sorted.out[i]) /\ Labelled(sorted.out[j])) =>
                  ~KeyBefore(sorted.out[j], sorted.out[i])

\* C17: sorting the result again returns the same list, items that tie on the
\* three keys keep the order they had in the input, and the input list is as
\* it was handed in.
C17_IdempotentStableUnmodified ==
    /\ sorted.twice => sorted.again = sorted.out
    /\ sorted.done =>
          /\ sortInput = sorted.given
          /\ \A i, j \in 1..Len(sorted.out) :
                (i < j /\ KeyTie(sorted.out[i], sorted.out[j])
                       /\ Labelled(sorted.out[i]) /\ Labelled(sorted.out[j])) =>
                    sorted.out[i].id < sorted.out[j].id

(***************************************************************************)
(* Properties: ApiService                                                  *)
(***************************************************************************)

\* C20: while a request answered with 401 is handled, whatever the backend
\* answers, at most one POST /auth/refresh is issued and the request is sent
\* again at most once.
C20_OneRefreshOneResend == refreshPosts <= 1 /\ resends <= 1

Groups == 1..Len(timeBuckets)

\* Where the object made from dump k of the list is found in the groups.
PlacesOf(k) ==
    {<<i, j>> \in Groups \X (1..Len(bucketList)) :
        j <= Len(timeBuckets[i].dumps) /\ timeBuckets[i].dumps[j].pos = k}

RECURSIVE SumOfCounts(_)
SumOfCounts(i) == IF i = 0 THEN 0 ELSE timeBuckets[i].count + SumOfCounts(i - 1)

\* C23: after any sequence of fetches and patches of the list, the groups
\* useTimeBuckets returns are a partition of the current list (every dump is
\* in exactly one group and the groups hold nothing else), each group's count
\* is the length of its list, and the groups come in the order overdue,
\* today, tomorrow, nextWeek, nextMonth, later.
C23_GroupsPartitionList ==
    /\ [i \in Groups |-> timeBuckets[i].bucket]
          = <<"overdue", "today", "tomorrow", "nextWeek", "nextMonth", "later">>
    /\ \A i \in Groups : timeBuckets[i].count = Len(timeBuckets[i].dumps)
    /\ SumOfCounts(Len(timeBuckets)) = Len(bucketList)
    /\ \A k \in 1..Len(bucketList) :
          /\ Cardinality(PlacesOf(k)) = 1
          /\ \A pl \in PlacesOf(k) :
                LET d == timeBuckets[pl[1]].dumps[pl[2]]
                IN  [f \in DOMAIN bucketList[k] |-> d[f]] = bucketList[k]

\* Two dumps, one dated 6 January and one without a date, are in two
\* different groups.
C23_Witness ==
    /\ Len(bucketList) = 2
    /\ bucketList[1].dates = <<IsoString(5 * TicksPerDay)>>
    /\ bucketList[2].dates = <<>>
    /\ timeBuckets[6].count = 1
    /\ \E i \in 1..5 : timeBuckets[i].count = 1

\* C24: the stored value under timeBucket_<bucket>_expanded is the expanded
\* state of the bucket's section after any sequence of toggles, toggling one
\* bucket changes neither the state nor the stored value of another, and on
\* mount a stored value overrides the default (overdue and today expanded).
C24_ExpandedPersisted ==
    /\ [](\A b \in mounted : bucketStorage[localStorageKey(b)] = String(isExpanded[b]))
    /\ [][\A b \in mounted \cap mounted' :
            isExpanded'[b] # isExpanded[b] =>
                \A c \in BucketNames \ {b} :
                    /\ isExpanded'[c] = isExpanded[c]
                    /\ bucketStorage'[localStorageKey(c)] = bucketStorage[localStorageKey(c)]]_vars
    /\ [][\A b \in mounted' \ mounted :
            isExpanded'[b] = IF bucketStorage[localStorageKey(b)] = Null
                             THEN b \in {"overdue", "today"}
                             ELSE bucketStorage[localStorageKey(b)] = "true"]_vars

\* The section of overdue was collapsed and mounted again, the section of
\* later was expanded and is not mounted.
C24_Witness ==
    /\ "overdue" \in mounted
    /\ ~isExpanded["overdue"]
    /\ bucketStorage[localStorageKey("overdue")] = "false"
    /\ "today" \in mounted
    /\ isExpanded["today"]
    /\ "later" \notin mounted
    /\ bucketStorage[localStorageKey("later")] = "true"

\* POST /review/{id}/approve calls issued by the two handlers.
ApprovePosts ==
    Cardinality({<<i, k>> \in Callers \X (1..2) :
                    k <= Len(ops[i].calls) /\ ops[i].calls[k] = "acceptDump"})

\* C27: approving one item once in the detail modal opened from the review
\* page issues exactly one POST /review/{id}/approve: once the modal's handler
\* and the page's onAccept handler have finished, one approve call was made.
C27_OneApprovePost ==
    (ops["modal"].pc = "succeeded" /\ ops["page"].pc \in {"refused", "succeeded", "failed"})
        => ApprovePosts = 1

\* C25: the completion of a search that was cancelled changes neither the
\* results nor the error held by the provider.
C25_CancelledCompletionInert ==
    [][\A k \in 1..Len(reqs) :
          (reqs[k] = "aborted" /\ reqs'[k] = "cancelled") =>
              /\ results' = results
              /\ searchError' = searchError]_vars

\* C26: loading is true whenever a search that was not cancelled is in
\* flight, and false once none is in flight.
C26_LoadingIffInFlight ==
    searchLoading <=> \E k \in 1..Len(reqs) : reqs[k] = "inflight"

\* C30: page is at least 1, and when results are held page is at most
\* max(1, ceil(results.total / 20)).
C30_PageWithinRange ==
    /\ page >= 1
    /\ results.kind = "data" =>
          page <= (IF TotalPages(results.total) > 1 THEN TotalPages(results.total) ELSE 1)

\* C29: isAuthenticated is true only if a user is held and an access token is
\* present; after logout the user is null and the access token, the refresh
\* token and the stored user record are absent from memory and localStorage;
\* initAuth clears an access token found without a stored user record.
C29_AuthStateConsistent ==
    /\ [](isAuthenticated => (user # Null /\ accessToken # Null))
    /\ [][authOp' = "logout" =>
            /\ user' = Null
            /\ accessToken' = Null
            /\ refreshToken' = Null
            /\ storage' = [accessToken |-> Null, refreshToken |-> Null]
            /\ storedUser' = NoItem]_vars
    /\ [][(authOp' = "initAuth" /\ accessToken # Null /\ storedUser = NoItem) =>
            /\ accessToken' = Null
            /\ storage'.accessToken = Null
            /\ ~isAuthenticated']_vars

\* A session restored by initAuth from the stored token and user record.
C29_Witness ==
    /\ authOp = "initAuth"
    /\ isAuthenticated
    /\ user = "u1"
    /\ accessToken = "a1"

NoTokens == [accessToken |-> Null, refreshToken |-> Null]

\* C21: whenever a 401 is not recovered (no refresh token, the refresh call
\* fails, or the request sent again after a refresh is answered with 401 again),
\* the tokens in memory and in local storage are cleared and the browser is
\* sent to /login.
C21_UnrecoveredClearsAndRedirects ==
    [][(outcome = "pending" /\ outcome' = "rejected"
          /\ (lastStatus' = Unauthorized \/ Len(chain) > 1)) =>
            /\ accessToken' = Null
            /\ refreshToken' = Null
            /\ storage' = NoTokens
            /\ location' = "/login"]_vars

\* C28: after any sequence of setTokens, clearTokens and token loads the
\* tokens in memory are the tokens in local storage.
C28_MemoryEqualsStorage ==
    /\ accessToken = storage.accessToken
    /\ refreshToken = storage.refreshToken

====
